---- MODULE Spec2Model ----
(***************************************************************************)
(* Model of the trade analyzer (src/analyzer.py): analyze_trades (Spec),   *)
(* the FIFO lot tracker calculate_avg_cost (SpecLots), the concurrent      *)
(* lookups of analyze_current_holdings (SpecHoldings) and the two filters  *)
(* filter_trades_by_date and filter_trades_by_symbol (SpecFilter).         *)
(*                                                                         *)
(* Money is counted in cents (integers).  A float that can be a ratio,     *)
(* infinite or NaN is a fraction [n, d]: d > 0 is the ratio n/d, 1/0 is    *)
(* +infinity (np.inf) and 0/0 is NaN.  A TradeDate is a timestamp counted  *)
(* in ticks; TicksPerDay ticks make one calendar date.  The TradeDate      *)
(* column of a frame has a dtype: "datetime64[ns]" cells are instants,     *)
(* "object" cells are the text read from the export, an integer t >= 0     *)
(* standing for text that names the instant t and NotADate for text that   *)
(* names no date.                                                          *)
(***************************************************************************)
EXTENDS Integers, Sequences, FiniteSets, TLC

VARIABLES pc, df, dtype, locals, result, symbol_df, lots, li, avg_cost,
          symbols_to_fetch, futures, holdings_data, market

(* the state of analyze_current_holdings and of the market-data provider *)
holdingsVars == <<symbols_to_fetch, futures, holdings_data, market>>

vars == <<pc, df, dtype, locals, result, symbol_df, lots, li, avg_cost, holdingsVars>>

(* ---------------------------------------------------------------- bounds *)
MaxRows == 3
MaxStreakRows == 4
MaxTime == 2
TicksPerDay == 2
MaxLotRows == 3
MaxGapRows == 4
MaxInsightRows == 4
MaxLossRun == 5
MaxTextRows == 2
MaxFilterRows == 2
MaxDate == 1
MaxHoldingRows == 2
MaxOversellRows == 3

(* calendar dates per month of the model's calendar *)
DaysPerMonth == 30

(* grade_trade's floor of the fee cost, 0.01, in cents *)
FeeFloor == 1

(* rows of top_winners and of top_losers *)
TopN == 5

(* ------------------------------------------------------------- fractions *)
Abs(i) == IF i < 0 THEN -i ELSE i

RECURSIVE GCD(_, _)
GCD(a, b) == IF b = 0 THEN a ELSE GCD(b, a % b)

(* n/d in lowest terms, d >= 0 *)
Frac(n, d) ==
    IF d = 0 THEN [n |-> IF n > 0 THEN 1 ELSE IF n < 0 THEN -1 ELSE 0, d |-> 0]
    ELSE LET g == GCD(Abs(n), Abs(d))
             sgn == IF d < 0 THEN -1 ELSE 1
         IN  [n |-> sgn * (n \div g), d |-> sgn * (d \div g)]
FromInt(i) == Frac(i, 1)
Inf == Frac(1, 0)
NaN == Frac(0, 0)
IsNaN(x) == x.n = 0 /\ x.d = 0
IsInf(x) == x.n > 0 /\ x.d = 0
IsFinite(x) == x.d > 0
FEq(a, b) == ~IsNaN(a) /\ ~IsNaN(b) /\ a.n * b.d = b.n * a.d
FLt(a, b) == ~IsNaN(a) /\ ~IsNaN(b) /\ a.n * b.d < b.n * a.d
FAdd(a, b) == Frac(a.n * b.d + b.n * a.d, a.d * b.d)
FMul(a, b) == Frac(a.n * b.n, a.d * b.d)

(* --------------------------------------------------------------- helpers *)
RECURSIVE SumSeq(_)
SumSeq(s) == IF s = <<>> THEN 0 ELSE Head(s) + SumSeq(Tail(s))

Column(s, col) == [i \in 1..Len(s) |-> s[i][col]]

MinOf(S) == CHOOSE x \in S : \A y \in S : x <= y
MaxOf(S) == CHOOSE x \in S : \A y \in S : x >= y
Range(s) == {s[i] : i \in 1..Len(s)}

RECURSIVE SortedKeys(_)
SortedKeys(S) == IF S = {} THEN <<>> ELSE <<MinOf(S)>> \o SortedKeys(S \ {MinOf(S)})

Perms(n) == {p \in [1..n -> 1..n] : \A i, j \in 1..n : i # j => p[i] # p[j]}

(* df.sort_values("TradeDate").reset_index(drop=True): the default kind is  *)
(* quicksort, which is not stable.  numpy keeps equal keys in order only    *)
(* while a partition is short enough for its insertion sort; the short      *)
(* ledgers of the model stand for ledgers of any length, so rows of equal   *)
(* TradeDate come out in any order.                                         *)
SortValues(s) ==
    {[i \in 1..Len(s) |-> s[p[i]]] : p \in
        {q \in Perms(Len(s)) :
            \A i, j \in 1..Len(s) : i < j => s[q[i]].TradeDate <= s[q[j]].TradeDate}}

DateOf(t) == t \div TicksPerDay

(* an argument left at its default, a value that is not there *)
None == -1

(* a TradeDate cell whose text is no date *)
NotADate == -1

(* faulty variant: errors='coerce', the rows without a date drop out *)
to_datetime_coerce(d) ==
    [raised |-> FALSE, rows |-> SelectSeq(d, LAMBDA r : r.TradeDate # NotADate)]

(* pd.to_datetime(df["TradeDate"]) with the default errors='raise': every   *)
(* cell becomes the instant its text names, or the call raises              *)
to_datetime(d) ==
    IF \E i \in 1..Len(d) : d[i].TradeDate = NotADate
    THEN [raised |-> TRUE, rows |-> <<>>]
    ELSE [raised |-> FALSE, rows |-> d]

(* ------------------------------------------------- analyze_trades, 2 - 3 *)
PnlOf(d) == Column(d, "FifoPnlRealized")

total_pnl_net(d) == SumSeq(PnlOf(d))
total_fees(d) == SumSeq(Column(d, "IBCommission"))

commission_pct(d) ==
    IF total_pnl_net(d) # 0
    THEN Frac(Abs(total_fees(d)) * 100, Abs(total_pnl_net(d)))
    ELSE FromInt(0)

avg_commission_per_trade(d) ==
    IF Len(d) > 0 THEN Frac(total_fees(d), Len(d)) ELSE FromInt(0)

(* df.groupby(df["TradeDate"].dt.date)["FifoPnlRealized"].sum(): one point  *)
(* per calendar date, in ascending date order.                              *)
DailyDates(d) == SortedKeys({DateOf(d[i].TradeDate) : i \in 1..Len(d)})

(* faulty variant: a day counts only its first row *)
DailyNetFirstRow(d) ==
    LET dates == DailyDates(d)
    IN  [k \in 1..Len(dates) |->
            Head(PnlOf(SelectSeq(d, LAMBDA r : DateOf(r.TradeDate) = dates[k])))]

DailyNet(d) ==
    LET dates == DailyDates(d)
    IN  [k \in 1..Len(dates) |->
            SumSeq(PnlOf(SelectSeq(d, LAMBDA r : DateOf(r.TradeDate) = dates[k])))]

CumSum(s) == [i \in 1..Len(s) |-> SumSeq(SubSeq(s, 1, i))]
CumMax(s) == [i \in 1..Len(s) |-> MaxOf({s[j] : j \in 1..i})]

equity_curve(d) == CumSum(DailyNet(d))
running_max(d) == CumMax(equity_curve(d))
(* faulty variant: the distance is taken from the peak down, not from the equity up *)
drawdownPeakMinusEquity(d) ==
    LET eq == equity_curve(d)
        rm == CumMax(eq)
    IN  [i \in 1..Len(eq) |-> rm[i] - eq[i]]

drawdown(d) ==
    LET eq == equity_curve(d)
        rm == CumMax(eq)
    IN  [i \in 1..Len(eq) |-> eq[i] - rm[i]]

(* Series.min() of an empty series is NaN *)
max_drawdown(d) ==
    LET dd == drawdown(d)
    IN  IF dd = <<>> THEN NaN ELSE FromInt(MinOf(Range(dd)))

max_drawdown_pct(d) ==
    LET rm == running_max(d)
        top == MaxOf(Range(rm))
    IN  IF rm # <<>> /\ top > 0
        THEN Frac(max_drawdown(d).n * 100, top)
        ELSE FromInt(0)

(* faulty variant: every point starts a run of its own *)
RunIdsEveryRow(tags) == [i \in 1..Len(tags) |-> i]

(* is_dd.ne(is_dd.shift()).cumsum(): the run number of every point *)
RECURSIVE RunIds(_)
RunIds(tags) ==
    IF tags = <<>> THEN <<>>
    ELSE LET n == Len(tags)
             before == RunIds(SubSeq(tags, 1, n - 1))
         IN  IF n = 1 THEN <<1>>
             ELSE Append(before,
                         IF tags[n] # tags[n - 1] THEN before[n - 1] + 1 ELSE before[n - 1])

(* faulty variant: the count is never reset outside a drawdown *)
dd_days_no_reset(is_dd) ==
    [i \in 1..Len(is_dd) |-> Cardinality({j \in 1..i : is_dd[j]})]

(* is_dd.astype(int).groupby(run number).cumsum() *)
dd_days(is_dd) ==
    LET ids == RunIds(is_dd)
    IN  [i \in 1..Len(is_dd) |->
            Cardinality({j \in 1..i : ids[j] = ids[i] /\ is_dd[j]})]

max_dd_duration(d) ==
    LET dd == drawdown(d)
        is_dd == [i \in 1..Len(dd) |-> dd[i] < 0]
        days == dd_days(is_dd)
        inDD == {days[i] : i \in {j \in 1..Len(dd) : is_dd[j]}}
    IN  IF Len(dd) > 0 /\ inDD # {} THEN MaxOf(inDD) ELSE 0

(* ------------------------------------------------- analyze_trades, 4 - 5 *)
closed_trades(d) == SelectSeq(d, LAMBDA r : r.FifoPnlRealized # 0)

wins(d) == SelectSeq(closed_trades(d), LAMBDA r : r.FifoPnlRealized > 0)
losses(d) == SelectSeq(closed_trades(d), LAMBDA r : r.FifoPnlRealized < 0)
breakeven(d) == SelectSeq(closed_trades(d), LAMBDA r : r.FifoPnlRealized = 0)

total_trades(d) == Len(closed_trades(d))

(* faulty variant: the win rate of an empty closed-trade set is 0/0 *)
win_rate_no_default(d) == Frac(Len(wins(d)) * 100, total_trades(d))

win_rate(d) ==
    IF total_trades(d) > 0 THEN Frac(Len(wins(d)) * 100, total_trades(d)) ELSE FromInt(0)

MeanPnl(rows) == IF Len(rows) > 0 THEN Frac(SumSeq(PnlOf(rows)), Len(rows)) ELSE FromInt(0)

avg_win(d) == IF total_trades(d) > 0 THEN MeanPnl(wins(d)) ELSE FromInt(0)
avg_loss(d) == IF total_trades(d) > 0 THEN MeanPnl(losses(d)) ELSE FromInt(0)

largest_win(d) ==
    IF total_trades(d) > 0 /\ Len(wins(d)) > 0 THEN MaxOf(Range(PnlOf(wins(d)))) ELSE 0
largest_loss(d) ==
    IF total_trades(d) > 0 /\ Len(losses(d)) > 0 THEN MinOf(Range(PnlOf(losses(d)))) ELSE 0

gross_profit(d) == IF Len(wins(d)) > 0 THEN SumSeq(PnlOf(wins(d))) ELSE 0
gross_loss(d) == IF Len(losses(d)) > 0 THEN Abs(SumSeq(PnlOf(losses(d)))) ELSE 0

(* faulty variant: no default for an empty closed-trade set *)
profit_factor_no_default(d) ==
    IF gross_loss(d) > 0 THEN Frac(gross_profit(d), gross_loss(d)) ELSE Inf

(* faulty variant: a zero gross loss gives 0, as the empty case does *)
profit_factor_zero_guard(d) ==
    IF total_trades(d) > 0
    THEN IF gross_loss(d) > 0 THEN Frac(gross_profit(d), gross_loss(d)) ELSE FromInt(0)
    ELSE FromInt(0)

profit_factor(d) ==
    IF total_trades(d) > 0
    THEN IF gross_loss(d) > 0 THEN Frac(gross_profit(d), gross_loss(d)) ELSE Inf
    ELSE FromInt(0)

avg_rr_ratio(d) ==
    IF total_trades(d) > 0 /\ avg_loss(d).n # 0
    THEN Frac(Abs(avg_win(d).n) * avg_loss(d).d, avg_win(d).d * Abs(avg_loss(d).n))
    ELSE FromInt(0)

(* (win_rate/100 * avg_win) + ((1 - win_rate/100) * avg_loss) *)
(* faulty variant: the averages are added without the win rate *)
expectancy_unweighted(d) ==
    IF total_trades(d) > 0 THEN FAdd(avg_win(d), avg_loss(d)) ELSE FromInt(0)

expectancy(d) ==
    IF total_trades(d) > 0
    THEN LET p == Frac(win_rate(d).n, win_rate(d).d * 100)
             q == FAdd(FromInt(1), Frac(-p.n, p.d))
         IN  FAdd(FMul(p, avg_win(d)), FMul(q, avg_loss(d)))
    ELSE FromInt(0)

IsWinOf(d) ==
    LET ct == closed_trades(d)
    IN  [i \in 1..Len(ct) |-> ct[i].FifoPnlRealized > 0]

(* closed_trades.groupby(streak_groups)['IsWin'].agg(['first', 'size']) *)
streaks(d) ==
    LET tags == IsWinOf(d)
        ids == RunIds(tags)
        groups == SortedKeys(Range(ids))
    IN  [g \in 1..Len(groups) |->
            [first |-> tags[MinOf({i \in 1..Len(ids) : ids[i] = groups[g]})],
             size |-> Cardinality({i \in 1..Len(ids) : ids[i] = groups[g]})]]

StreakSizes(d, tag) ==
    LET runs == streaks(d)
    IN  {runs[g].size : g \in {h \in 1..Len(runs) : runs[h].first = tag}}

(* faulty variant: all winning trades count, consecutive or not *)
max_win_streak_all_wins(d) == Len(wins(d))

max_win_streak(d) ==
    LET win_streaks == StreakSizes(d, TRUE)
    IN  IF Len(closed_trades(d)) > 0 /\ win_streaks # {} THEN MaxOf(win_streaks) ELSE 0
max_loss_streak(d) ==
    LET loss_streaks == StreakSizes(d, FALSE)
    IN  IF Len(closed_trades(d)) > 0 /\ loss_streaks # {} THEN MaxOf(loss_streaks) ELSE 0

(* ----------------------------------------------------- analyze_trades, 6 *)
(* pandas division of two integer columns, then .fillna(0) *)
DivFillna0(a, b) == IF IsNaN(Frac(a, b)) THEN FromInt(0) ELSE Frac(a, b)

SymbolsOf(d) == {d[i].Symbol : i \in 1..Len(d)}
RowsOfSymbol(d, s) == SelectSeq(d, LAMBDA r : r.Symbol = s)

SymbolTrades(d, s) == Len(SelectSeq(RowsOfSymbol(d, s), LAMBDA r : r.FifoPnlRealized # 0))
SymbolNetPnL(d, s) == SumSeq(PnlOf(RowsOfSymbol(d, s)))
(* faulty variant: the fees of the closing rows only *)
SymbolFeesClosedOnly(d, s) ==
    SumSeq(Column(RowsOfSymbol(closed_trades(d), s), "IBCommission"))

SymbolFees(d, s) == SumSeq(Column(RowsOfSymbol(d, s), "IBCommission"))

(* symbol_stats.index.map(sym_wins).fillna(0), or 0 without closed trades *)
SymbolWins(d, s) ==
    IF Len(closed_trades(d)) > 0 THEN Len(RowsOfSymbol(wins(d), s)) ELSE 0
SymbolLosses(d, s) ==
    IF Len(closed_trades(d)) > 0 THEN Len(RowsOfSymbol(losses(d), s)) ELSE 0

SymbolWinRate(d, s) == DivFillna0(SymbolWins(d, s) * 100, SymbolTrades(d, s))

(* closed_trades.groupby('Symbol')[...].max() aligned on the symbol index:  *)
(* a symbol missing from the closed trades gets NaN.                        *)
SymbolBestTrade(d, s) ==
    IF Len(closed_trades(d)) > 0
    THEN IF RowsOfSymbol(closed_trades(d), s) # <<>>
         THEN FromInt(MaxOf(Range(PnlOf(RowsOfSymbol(closed_trades(d), s)))))
         ELSE NaN
    ELSE FromInt(0)
SymbolWorstTrade(d, s) ==
    IF Len(closed_trades(d)) > 0
    THEN IF RowsOfSymbol(closed_trades(d), s) # <<>>
         THEN FromInt(MinOf(Range(PnlOf(RowsOfSymbol(closed_trades(d), s)))))
         ELSE NaN
    ELSE FromInt(0)

SymbolOpenPosition(d, s) == SumSeq(Column(RowsOfSymbol(d, s), "Quantity"))

SymbolRow(d, s) ==
    LET open == SymbolOpenPosition(d, s)
    IN  [Symbol |-> s,
         Trades |-> SymbolTrades(d, s),
         NetPnL |-> SymbolNetPnL(d, s),
         Fees |-> SymbolFees(d, s),
         Wins |-> SymbolWins(d, s),
         Losses |-> SymbolLosses(d, s),
         WinRate |-> SymbolWinRate(d, s),
         BestTrade |-> SymbolBestTrade(d, s),
         WorstTrade |-> SymbolWorstTrade(d, s),
         OpenPosition |-> open,
         HasOpenPosition |-> open > 0,
         AvgPnL |-> DivFillna0(SymbolNetPnL(d, s), SymbolTrades(d, s))]

(* symbol_stats.sort_values("NetPnL", ascending=False).reset_index(): the   *)
(* sort is not stable, symbols of equal NetPnL come out in any order.       *)
symbol_stats(d) ==
    LET syms == SymbolsOf(d)
        n == Cardinality(syms)
        rows == [s \in syms |-> SymbolRow(d, s)]
        orders == {o \in [1..n -> syms] :
                      /\ \A i, j \in 1..n : i # j => o[i] # o[j]
                      /\ \A i, j \in 1..n : i < j => rows[o[i]].NetPnL >= rows[o[j]].NetPnL}
    IN  {[i \in 1..n |-> rows[o[i]]] : o \in orders}

(* ----------------------------------------------------- analyze_trades, 7 *)
day_order == <<"Monday", "Tuesday", "Wednesday", "Thursday", "Friday", "Saturday", "Sunday">>

(* Series.dt.day_name(); calendar date 0 is a Monday *)
DayName(t) == day_order[(DateOf(t) % Len(day_order)) + 1]

(* Series.dt.to_period('M') *)
MonthOf(t) == DateOf(t) \div DaysPerMonth

(* round(2) of an amount in dollars: to the nearest cent, ties to even *)
RoundHalfEven(x) ==
    LET q == x.n \div x.d
        r == x.n - q * x.d
    IN  IF 2 * r < x.d THEN q
        ELSE IF 2 * r > x.d THEN q + 1
        ELSE IF q % 2 = 0 THEN q ELSE q + 1

dow_performance(d) ==
    LET ct == closed_trades(d)
        days == SelectSeq(day_order, LAMBDA n : \E i \in 1..Len(ct) : DayName(ct[i].TradeDate) = n)
    IN  [k \in 1..Len(days) |->
            LET rows == SelectSeq(ct, LAMBDA r : DayName(r.TradeDate) = days[k])
            IN  [DayOfWeek |-> days[k],
                 sum |-> SumSeq(PnlOf(rows)),
                 mean |-> RoundHalfEven(Frac(SumSeq(PnlOf(rows)), Len(rows))),
                 count |-> Len(rows)]]

monthly_performance(d) ==
    LET ct == closed_trades(d)
        months == SortedKeys({MonthOf(ct[i].TradeDate) : i \in 1..Len(ct)})
    IN  [k \in 1..Len(months) |->
            LET rows == SelectSeq(ct, LAMBDA r : MonthOf(r.TradeDate) = months[k])
            IN  [Month |-> months[k], sum |-> SumSeq(PnlOf(rows)), count |-> Len(rows)]]

(* ----------------------------------------------------- analyze_trades, 8 *)
fear_index(d) ==
    IF Len(wins(d)) > 0 /\ avg_win(d).n > 0
    THEN LET small_wins == SelectSeq(wins(d), LAMBDA r :
                               r.FifoPnlRealized * 10 * avg_win(d).d < 3 * avg_win(d).n)
         IN  Frac(Len(small_wins) * 100, Len(wins(d)))
    ELSE FromInt(0)

(* faulty variant: the boundaries belong to the better grade *)
grade_trade_inclusive(pnl, fee) ==
    LET net == pnl + fee
        fee_cost == IF fee # 0 THEN Abs(fee) ELSE FeeFloor
    IN  IF net >= 5 * fee_cost THEN "A+"
        ELSE IF net >= 3 * fee_cost THEN "A"
        ELSE IF net >= fee_cost THEN "B"
        ELSE IF net >= 0 THEN "C"
        ELSE IF net >= -fee_cost THEN "D"
        ELSE "F"

grade_trade(pnl, fee) ==
    LET net == pnl + fee
        fee_cost == IF fee # 0 THEN Abs(fee) ELSE FeeFloor
    IN  IF net > 5 * fee_cost THEN "A+"
        ELSE IF net > 3 * fee_cost THEN "A"
        ELSE IF net > fee_cost THEN "B"
        ELSE IF net > 0 THEN "C"
        ELSE IF net > -fee_cost THEN "D"
        ELSE "F"

(* the annotated closed trades returned as processed_df *)
processed_df(d) ==
    LET ct == closed_trades(d)
    IN  [i \in 1..Len(ct) |->
            [TradeDate |-> ct[i].TradeDate,
             Symbol |-> ct[i].Symbol,
             Quantity |-> ct[i].Quantity,
             TradePrice |-> ct[i].TradePrice,
             FifoPnlRealized |-> ct[i].FifoPnlRealized,
             IBCommission |-> ct[i].IBCommission,
             IsWin |-> ct[i].FifoPnlRealized > 0,
             DayOfWeek |-> DayName(ct[i].TradeDate),
             Month |-> MonthOf(ct[i].TradeDate),
             Grade |-> grade_trade(ct[i].FifoPnlRealized, ct[i].IBCommission)]]

Grades == {"A+", "A", "B", "C", "D", "F"}

grade_distribution(d) ==
    LET graded == processed_df(d)
    IN  [g \in {graded[i].Grade : i \in 1..Len(graded)} |->
            Cardinality({i \in 1..Len(graded) : graded[i].Grade = g})]

(* ----------------------------------------------------- analyze_trades, 9 *)
Insight(text, value) == [msg |-> text, value |-> value]
(* faulty variant: the message is appended whatever its gate says *)
InsightAlways(cond, text, value) == <<Insight(text, value)>>

InsightIf(cond, text, value) == IF cond THEN <<Insight(text, value)>> ELSE <<>>

(* dow_performance['sum'].idxmax(): the first weekday of the greatest sum *)
best_day(d) ==
    LET dow == dow_performance(d)
        top == MaxOf({dow[k].sum : k \in 1..Len(dow)})
    IN  dow[MinOf({k \in 1..Len(dow) : dow[k].sum = top})].DayOfWeek

BestDayText ==
    [n \in Range(day_order) |->
        CASE n = "Monday" -> "Best day: Monday"
          [] n = "Tuesday" -> "Best day: Tuesday"
          [] n = "Wednesday" -> "Best day: Wednesday"
          [] n = "Thursday" -> "Best day: Thursday"
          [] n = "Friday" -> "Best day: Friday"
          [] n = "Saturday" -> "Best day: Saturday"
          [] OTHER -> "Best day: Sunday"]

(* the messages in the order they are appended; value is the number a       *)
(* message prints (the streak length, the expectancy in cents), else 0      *)
insights(d) ==
    (IF FLt(win_rate(d), FromInt(40))
     THEN <<Insight("Low win rate (<40%). Consider improving trade selection.", 0)>>
     ELSE InsightIf(FLt(FromInt(70), win_rate(d)),
                    "High win rate (>70%). Good trade selection!", 0))
    \o (IF avg_win(d).n > 0 /\ avg_loss(d).n < 0
        THEN IF FLt(avg_rr_ratio(d), Frac(3, 2))
             THEN <<Insight("Risk/Reward ratio below 1.5:1. Losses are too large relative to wins.", 0)>>
             ELSE InsightIf(FLt(Frac(5, 2), avg_rr_ratio(d)),
                            "Excellent Risk/Reward ratio (>2.5:1)!", 0)
        ELSE <<>>)
    \o (IF FLt(profit_factor(d), FromInt(1))
        THEN <<Insight("Profit factor <1. Overall unprofitable.", 0)>>
        ELSE InsightIf(FLt(FromInt(2), profit_factor(d)), "Strong profit factor (>2)!", 0))
    \o InsightIf(FLt(FromInt(50), fear_index(d)),
                 "High Fear Index (>50%). You are cutting winners too early.", 0)
    \o InsightIf(FLt(FromInt(30), commission_pct(d)),
                 "Commissions eating >30% of gross profits. Reduce frequency or increase size.", 0)
    \o InsightIf(max_loss_streak(d) >= 5, "Long losing streak (N trades).", max_loss_streak(d))
    \o (IF FLt(FromInt(0), expectancy(d))
        THEN <<Insight("Positive expectancy ($X per trade).", RoundHalfEven(expectancy(d)))>>
        ELSE <<Insight("Negative expectancy ($X per trade).", RoundHalfEven(expectancy(d)))>>)
    \o (IF Len(dow_performance(d)) > 0
        THEN <<Insight(BestDayText[best_day(d)], 0)>>
        ELSE <<>>)

(* ---------------------------------------------------- analyze_trades, 10 *)
(* nlargest / nsmallest(n, 'FifoPnlRealized'): the first n rows in the      *)
(* order of Better, rows of equal P/L in their order of appearance          *)
RECURSIVE TopRows(_, _, _)
TopRows(rows, n, largest) ==
    IF n = 0 \/ rows = <<>> THEN <<>>
    ELSE LET best == MinOf({i \in 1..Len(rows) : \A j \in 1..Len(rows) :
                              IF largest
                              THEN rows[i].FifoPnlRealized >= rows[j].FifoPnlRealized
                              ELSE rows[i].FifoPnlRealized <= rows[j].FifoPnlRealized})
         IN  <<[TradeDate |-> rows[best].TradeDate,
                Symbol |-> rows[best].Symbol,
                FifoPnlRealized |-> rows[best].FifoPnlRealized,
                IBCommission |-> rows[best].IBCommission]>>
             \o TopRows(SubSeq(rows, 1, best - 1) \o SubSeq(rows, best + 1, Len(rows)),
                        n - 1, largest)

top_winners(d) == TopRows(closed_trades(d), TopN, TRUE)
top_losers(d) == TopRows(closed_trades(d), TopN, FALSE)

NoResult == [returned |-> FALSE]

ResultBundle(d, table) ==
    [returned |-> TRUE,
     total_trades |-> total_trades(d),
     num_wins |-> IF total_trades(d) > 0 THEN Len(wins(d)) ELSE 0,
     num_losses |-> IF total_trades(d) > 0 THEN Len(losses(d)) ELSE 0,
     num_breakeven |-> IF total_trades(d) > 0 THEN Len(breakeven(d)) ELSE 0,
     win_rate |-> win_rate(d),
     total_fees |-> total_fees(d),
     total_pnl_net |-> total_pnl_net(d),
     avg_win |-> avg_win(d),
     avg_loss |-> avg_loss(d),
     largest_win |-> largest_win(d),
     largest_loss |-> largest_loss(d),
     profit_factor |-> profit_factor(d),
     avg_rr_ratio |-> avg_rr_ratio(d),
     expectancy |-> expectancy(d),
     max_drawdown |-> max_drawdown(d),
     max_drawdown_pct |-> max_drawdown_pct(d),
     max_dd_duration |-> max_dd_duration(d),
     max_win_streak |-> max_win_streak(d),
     max_loss_streak |-> max_loss_streak(d),
     commission_pct |-> commission_pct(d),
     avg_commission_per_trade |-> avg_commission_per_trade(d),
     equity_dates |-> DailyDates(d),
     equity_curve |-> equity_curve(d),
     drawdown_curve |-> drawdown(d),
     symbol_stats |-> table,
     dow_performance |-> dow_performance(d),
     monthly_performance |-> monthly_performance(d),
     fear_index |-> fear_index(d),
     grade_distribution |-> grade_distribution(d),
     top_winners |-> top_winners(d),
     top_losers |-> top_losers(d),
     insights |-> insights(d),
     processed_df |-> processed_df(d)]

NoLocals == [df |-> <<>>, streaks |-> <<>>]

(* analyze_trades(df): works on a copy, the caller's ledger is not touched *)
AnalyzeTrades ==
    /\ pc = "analyze"
    /\ LET parsed == to_datetime(df)
       IN  IF parsed.raised
           THEN /\ pc' = "raised"
                /\ UNCHANGED <<locals, result>>
           ELSE /\ \E d \in SortValues(parsed.rows) :
                     \E table \in symbol_stats(d) :
                        /\ locals' = [df |-> d, streaks |-> streaks(d)]
                        /\ result' = ResultBundle(d, table)
                /\ pc' = "analyzed"
    /\ UNCHANGED <<df, dtype, symbol_df, lots, li, avg_cost, holdingsVars>>

(* --------------------------------------- calculate_avg_cost (lot tracker) *)
(* faulty variant: the newest lot is consumed first *)
RECURSIVE ConsumeLotsNewestFirst(_, _)
ConsumeLotsNewestFirst(ls, remaining_to_sell) ==
    IF remaining_to_sell > 0 /\ Len(ls) > 0
    THEN IF ls[Len(ls)].quantity <= remaining_to_sell
         THEN ConsumeLotsNewestFirst(SubSeq(ls, 1, Len(ls) - 1),
                                     remaining_to_sell - ls[Len(ls)].quantity)
         ELSE SubSeq(ls, 1, Len(ls) - 1)
              \o <<[ls[Len(ls)] EXCEPT !.quantity = @ - remaining_to_sell]>>
    ELSE ls

(* faulty variant: what a sell could not take from the queue stays behind   *)
(* as a short lot                                                           *)
RECURSIVE ConsumeLotsCarryExcess(_, _)
ConsumeLotsCarryExcess(ls, remaining_to_sell) ==
    IF remaining_to_sell > 0
    THEN IF Len(ls) = 0
         THEN <<[quantity |-> -remaining_to_sell, price |-> FromInt(0)]>>
         ELSE IF ls[1].quantity <= remaining_to_sell
              THEN ConsumeLotsCarryExcess(Tail(ls), remaining_to_sell - ls[1].quantity)
              ELSE <<[ls[1] EXCEPT !.quantity = @ - remaining_to_sell]>> \o Tail(ls)
    ELSE ls

(* faulty variant: a lot that a sell covers only in part is sold whole *)
RECURSIVE ConsumeLotsWholeLot(_, _)
ConsumeLotsWholeLot(ls, remaining_to_sell) ==
    IF remaining_to_sell > 0 /\ Len(ls) > 0
    THEN IF ls[1].quantity <= remaining_to_sell
         THEN ConsumeLotsWholeLot(Tail(ls), remaining_to_sell - ls[1].quantity)
         ELSE Tail(ls)
    ELSE ls

RECURSIVE ConsumeLots(_, _)
ConsumeLots(ls, remaining_to_sell) ==
    IF remaining_to_sell > 0 /\ Len(ls) > 0
    THEN IF ls[1].quantity <= remaining_to_sell
         THEN ConsumeLots(Tail(ls), remaining_to_sell - ls[1].quantity)
         ELSE <<[ls[1] EXCEPT !.quantity = @ - remaining_to_sell]>> \o Tail(ls)
    ELSE ls

(* one iteration of the loop over symbol_df.iterrows() *)
ProcessRow(ls, row) ==
    IF row.Quantity > 0
    THEN Append(ls, [quantity |-> row.Quantity,
                     price |-> Frac(row.TradePrice * row.Quantity + Abs(row.IBCommission),
                                    row.Quantity)])
    ELSE ConsumeLots(ls, Abs(row.Quantity))

RECURSIVE TotalCost(_)
TotalCost(ls) ==
    IF ls = <<>> THEN FromInt(0)
    ELSE FAdd(Frac(ls[1].quantity * ls[1].price.n, ls[1].price.d), TotalCost(Tail(ls)))

TotalShares(ls) == SumSeq(Column(ls, "quantity"))

WeightedAvgCost(ls) ==
    IF Len(ls) = 0 THEN FromInt(0)
    ELSE IF TotalShares(ls) > 0
         THEN Frac(TotalCost(ls).n, TotalCost(ls).d * TotalShares(ls))
         ELSE FromInt(0)

CalcSort ==
    /\ pc = "calc_sort"
    /\ symbol_df' \in SortValues(symbol_df)
    /\ lots' = <<>>
    /\ li' = 1
    /\ pc' = "calc_loop"
    /\ UNCHANGED <<df, dtype, locals, result, avg_cost, holdingsVars>>

CalcRow ==
    /\ pc = "calc_loop"
    /\ li <= Len(symbol_df)
    /\ lots' = ProcessRow(lots, symbol_df[li])
    /\ li' = li + 1
    /\ UNCHANGED <<pc, df, dtype, locals, result, symbol_df, avg_cost, holdingsVars>>

CalcReturn ==
    /\ pc = "calc_loop"
    /\ li > Len(symbol_df)
    /\ avg_cost' = WeightedAvgCost(lots)
    /\ pc' = "calc_done"
    /\ UNCHANGED <<df, dtype, locals, result, symbol_df, lots, li, holdingsVars>>

(* ------------------------------------------- analyze_current_holdings *)
(* calculate_avg_cost on the sorted rows of one symbol *)
RECURSIVE FoldRows(_, _)
FoldRows(ls, rows) ==
    IF rows = <<>> THEN ls ELSE FoldRows(ProcessRow(ls, Head(rows)), Tail(rows))

calculate_avg_cost(sorted) == WeightedAvgCost(FoldRows(<<>>, sorted))

(* what calculate_avg_cost(df[df['Symbol'] == s]) can return: its sort      *)
(* leaves the order of rows of one TradeDate open                           *)
AvgCosts(d, s) == {calculate_avg_cost(sd) : sd \in SortValues(RowsOfSymbol(d, s))}

(* df['Symbol'].unique(): the symbols in their order of first appearance *)
RECURSIVE UniqueSymbols(_)
UniqueSymbols(d) ==
    IF d = <<>> THEN <<>>
    ELSE LET before == UniqueSymbols(SubSeq(d, 1, Len(d) - 1))
             s == d[Len(d)].Symbol
         IN  IF s \in Range(before) THEN before ELSE Append(before, s)

(* position_data: one entry per symbol, costs[s] the average cost that      *)
(* calculate_avg_cost returned for s                                        *)
position_summary(d, costs) ==
    LET syms == UniqueSymbols(d)
    IN  [k \in 1..Len(syms) |->
            LET symbol_rows == RowsOfSymbol(d, syms[k])
            IN  [Symbol |-> syms[k],
                 Quantity |-> SumSeq(Column(symbol_rows, "Quantity")),
                 AvgCostBasis |-> costs[syms[k]],
                 LastTradePrice |-> symbol_rows[Len(symbol_rows)].TradePrice,
                 TradeDate |-> symbol_rows[Len(symbol_rows)].TradeDate]]

open_positions(summary) == SelectSeq(summary, LAMBDA r : r.Quantity > 0)

SymbolsToFetch(open) ==
    [k \in 1..Len(open) |->
        [symbol |-> open[k].Symbol,
         quantity |-> open[k].Quantity,
         avg_cost |-> open[k].AvgCostBasis,
         last_price |-> open[k].LastTradePrice,
         last_date |-> open[k].TradeDate]]

(* a key the provider's info dictionary does not have *)
NoKey == "(no key)"

(* info.get('sector', info.get('category', 'Unknown')) *)
SectorOf(info) ==
    IF info.sector # NoKey THEN info.sector
    ELSE IF info.category # NoKey THEN info.category ELSE "Unknown"

(* info.get('industry', 'Unknown') *)
IndustryOf(info) == IF info.industry # NoKey THEN info.industry ELSE "Unknown"

(* lines 427-444 and 447-464: the dictionary a lookup returns *)
HoldingRow(data, current_price, sector, industry) ==
    LET cost_basis == FMul(FromInt(data.quantity), data.avg_cost)
        market_value == data.quantity * current_price
        unrealized_pnl == FAdd(FromInt(market_value), Frac(-cost_basis.n, cost_basis.d))
    IN  [raised |-> FALSE,
         Symbol |-> data.symbol,
         Quantity |-> data.quantity,
         AvgCost |-> data.avg_cost,
         CurrentPrice |-> current_price,
         CostBasis |-> cost_basis,
         MarketValue |-> market_value,
         UnrealizedPnL |-> unrealized_pnl,
         UnrealizedPnLPct |-> IF cost_basis.n > 0
                              THEN FMul(unrealized_pnl, Frac(100 * cost_basis.d, cost_basis.n))
                              ELSE FromInt(0),
         Sector |-> sector,
         Industry |-> industry,
         LastTradeDate |-> data.last_date]

(* faulty variant: the error of a lookup leaves the worker *)
OnLookupErrorPropagate(data) == [raised |-> TRUE, Symbol |-> data.symbol]

(* except Exception (lines 445-464): the last known price, no sector *)
OnLookupError(data) == HoldingRow(data, data.last_price, "Unknown", "Unknown")

NoFuture == [state |-> "pending", attempts |-> 0, current_price |-> None,
             result |-> [raised |-> FALSE], collected |-> FALSE]

(* lines 371-398 and 466-481: positions, open positions, one task each *)
PreparePositions ==
    /\ pc = "holdings"
    /\ \E costs \in [SymbolsOf(df) -> UNION {AvgCosts(df, s) : s \in SymbolsOf(df)}] :
         /\ \A s \in SymbolsOf(df) : costs[s] \in AvgCosts(df, s)
         /\ LET open == open_positions(position_summary(df, costs))
            IN  IF Len(open) = 0
                THEN /\ result' = [returned |-> TRUE, holdings |-> <<>>,
                                   total_market_value |-> 0, sector_allocation |-> <<>>]
                     /\ pc' = "returned"
                     /\ UNCHANGED <<symbols_to_fetch, futures>>
                ELSE /\ symbols_to_fetch' = SymbolsToFetch(open)
                     /\ futures' = [k \in 1..Len(open) |-> NoFuture]
                     /\ pc' = "fetching"
                     /\ UNCHANGED result
    /\ UNCHANGED <<df, dtype, locals, symbol_df, lots, li, avg_cost, holdings_data, market>>

(* a worker, lines 409-415: the ticker and its price; an error outside the  *)
(* inner handlers ends the lookup in the outer handler                      *)
FetchPrice ==
    \E i \in 1..Len(futures) :
        /\ pc = "fetching"
        /\ futures[i].state = "pending"
        /\ LET data == symbols_to_fetch[i]
               answer == market[data.symbol]
           IN  futures' = [futures EXCEPT ![i] =
                   IF answer.raises
                   THEN [@ EXCEPT !.state = "done", !.attempts = @ + 1,
                                  !.result = OnLookupError(data)]
                   ELSE [@ EXCEPT !.state = "priced", !.attempts = @ + 1,
                                  !.current_price = IF answer.lastPrice # None
                                                    THEN answer.lastPrice
                                                    ELSE data.last_price]]
        /\ UNCHANGED <<pc, df, dtype, locals, result, symbol_df, lots, li, avg_cost,
                       symbols_to_fetch, holdings_data, market>>

(* a worker, lines 418-444: sector and industry, then the dictionary *)
FetchInfo ==
    \E i \in 1..Len(futures) :
        /\ pc = "fetching"
        /\ futures[i].state = "priced"
        /\ LET data == symbols_to_fetch[i]
               info == market[data.symbol].info
               current_price == futures[i].current_price
           IN  futures' = [futures EXCEPT ![i] =
                   [@ EXCEPT !.state = "done",
                             !.result = IF info.available
                                        THEN HoldingRow(data, current_price,
                                                        SectorOf(info), IndustryOf(info))
                                        ELSE HoldingRow(data, current_price,
                                                        "Unknown", "Unknown")]]
        /\ UNCHANGED <<pc, df, dtype, locals, result, symbol_df, lots, li, avg_cost,
                       symbols_to_fetch, holdings_data, market>>

(* lines 482-483: as_completed hands over a finished future, and            *)
(* future.result() returns its dictionary or raises what the worker raised  *)
Collect ==
    \E i \in 1..Len(futures) :
        /\ pc = "fetching"
        /\ futures[i].state = "done"
        /\ ~futures[i].collected
        /\ futures' = [futures EXCEPT ![i].collected = TRUE]
        /\ IF futures[i].result.raised
           THEN pc' = "raised" /\ UNCHANGED holdings_data
           ELSE holdings_data' = Append(holdings_data, futures[i].result) /\ UNCHANGED pc
        /\ UNCHANGED <<df, dtype, locals, result, symbol_df, lots, li, avg_cost,
                       symbols_to_fetch, market>>

(* sort_values(col, ascending=False): the sort is not stable, rows of      *)
(* equal value come out in any order                                        *)
SortDescending(rows, col) ==
    {[i \in 1..Len(rows) |-> rows[q[i]]] : q \in
        {r \in Perms(Len(rows)) :
            \A i, j \in 1..Len(rows) : i < j => rows[r[i]][col] >= rows[r[j]][col]}}

(* (x / total_market_value * 100).round(2) *)
PctOfPortfolio(x, total) ==
    IF total > 0 THEN Frac(RoundHalfEven(Frac(x * 10000, total)), 100) ELSE Frac(x, 0)

WithPct(rows, total) ==
    [k \in 1..Len(rows) |->
        [Symbol |-> rows[k].Symbol,
         Quantity |-> rows[k].Quantity,
         AvgCost |-> rows[k].AvgCost,
         CurrentPrice |-> rows[k].CurrentPrice,
         CostBasis |-> rows[k].CostBasis,
         MarketValue |-> rows[k].MarketValue,
         UnrealizedPnL |-> rows[k].UnrealizedPnL,
         UnrealizedPnLPct |-> rows[k].UnrealizedPnLPct,
         Sector |-> rows[k].Sector,
         Industry |-> rows[k].Industry,
         LastTradeDate |-> rows[k].LastTradeDate,
         PctOfPortfolio |-> PctOfPortfolio(rows[k].MarketValue, total)]]

(* holdings_df.groupby('Sector').agg(...) with its percentage, before the sort *)
SectorRows(holdings, total) ==
    LET sectors == {holdings[k].Sector : k \in 1..Len(holdings)}
        RECURSIVE inOrder(_)
        inOrder(S) == IF S = {} THEN <<>>
                      ELSE LET x == CHOOSE y \in S : TRUE IN <<x>> \o inOrder(S \ {x})
        keys == inOrder(sectors)
    IN  [k \in 1..Len(keys) |->
            LET mine == SelectSeq(holdings, LAMBDA r : r.Sector = keys[k])
                value == SumSeq(Column(mine, "MarketValue"))
            IN  [Sector |-> keys[k],
                 MarketValue |-> value,
                 NumberOfStocks |-> Len(mine),
                 PctOfPortfolio |-> PctOfPortfolio(value, total)]]

(* lines 486-528, once every future has been collected *)
ReturnHoldings ==
    /\ pc = "fetching"
    /\ Len(holdings_data) = Len(futures)
    /\ LET total_market_value == SumSeq(Column(holdings_data, "MarketValue"))
       IN  \E holdings_df \in SortDescending(WithPct(holdings_data, total_market_value),
                                              "MarketValue") :
             \E sector_allocation \in
                    SortDescending(SectorRows(holdings_df, total_market_value), "MarketValue") :
                result' = [returned |-> TRUE,
                           holdings |-> holdings_df,
                           total_market_value |-> total_market_value,
                           sector_allocation |-> sector_allocation]
    /\ pc' = "returned"
    /\ UNCHANGED <<df, dtype, locals, symbol_df, lots, li, avg_cost, holdingsVars>>

(* ------------------------------------------------------------- filters *)
(* pd.to_datetime(start_date) of a datetime.date: midnight of that date *)
Midnight(date) == date * TicksPerDay

(* lines 533-537 of filter_trades_by_date, on the parsed rows *)
filter_trades_by_date(rows, start_date, end_date) ==
    LET from == IF start_date # None
                THEN SelectSeq(rows, LAMBDA r : r.TradeDate >= Midnight(start_date))
                ELSE rows
    IN  IF end_date # None
        THEN SelectSeq(from, LAMBDA r : r.TradeDate <= Midnight(end_date))
        ELSE from

filter_trades_by_symbol(rows, symbols) ==
    IF symbols # {} THEN SelectSeq(rows, LAMBDA r : r.Symbol \in symbols) ELSE rows

Frame(rows, type) == [returned |-> TRUE, rows |-> rows, dtype |-> type]

FilterArgs(call, start_date, end_date, symbols) ==
    [call |-> call, start_date |-> start_date, end_date |-> end_date, symbols |-> symbols]

(* filter_trades_by_date(df, start_date, end_date): line 532 assigns the    *)
(* parsed column to the frame it was given, then the rows are selected      *)
FilterTradesByDate ==
    /\ pc = "filter"
    /\ \E start_date, end_date \in {None} \cup 0..MaxDate :
         LET parsed == to_datetime(df)
         IN  /\ locals' = FilterArgs("filter_trades_by_date", start_date, end_date, {})
             /\ IF parsed.raised
                THEN /\ pc' = "raised"
                     /\ UNCHANGED <<df, dtype, result>>
                ELSE /\ df' = parsed.rows
                     /\ dtype' = "datetime64[ns]"
                     /\ result' = Frame(filter_trades_by_date(parsed.rows, start_date, end_date),
                                        "datetime64[ns]")
                     /\ pc' = "filtered"
    /\ UNCHANGED <<symbol_df, lots, li, avg_cost, holdingsVars>>

(* filter_trades_by_symbol(df, symbols) *)
FilterTradesBySymbol ==
    /\ pc = "filter"
    /\ \E symbols \in SUBSET {"XYZ", "ABC"} :
         /\ locals' = FilterArgs("filter_trades_by_symbol", None, None, symbols)
         /\ result' = Frame(filter_trades_by_symbol(df, symbols), dtype)
    /\ pc' = "filtered"
    /\ UNCHANGED <<df, dtype, symbol_df, lots, li, avg_cost, holdingsVars>>

(* ------------------------------------------------------ input ledgers *)
Row(t, s, q, p, pnl, c) ==
    [TradeDate |-> t, Symbol |-> s, Quantity |-> q, TradePrice |-> p,
     FifoPnlRealized |-> pnl, IBCommission |-> c]

SeqsUpTo(S, n) == UNION {[1..k -> S] : k \in 0..n}

(* rows that differ in time of trade and realized P/L *)
EquityRows == {Row(t, "XYZ", 0, 0, pnl, 0) : t \in 0..MaxTime, pnl \in {-2, 0, 1}}

(* one closed or opening trade per day, in chronological order *)
StreakLedgers ==
    {[i \in 1..Len(p) |-> Row(i * TicksPerDay, "XYZ", 0, 0, p[i], -1)] :
        p \in SeqsUpTo({-50, 0, 30, 100}, MaxStreakRows)}

(* rows of two symbols with fees of one dollar, one row per day *)
SymbolRows ==
    {Row(0, s, 0, 0, pnl, c) : s \in {"XYZ", "ABC"}, pnl \in {-5000, 0, 5000}, c \in {-100, 0}}

SymbolLedgers ==
    {[i \in 1..Len(l) |-> [l[i] EXCEPT !.TradeDate = i * TicksPerDay]] :
        l \in SeqsUpTo(SymbolRows, MaxRows)}

(* rows on either side of every grade boundary, and the two documented ones *)
GradeRows ==
    {Row(0, "XYZ", 0, 0, pnl, c) : pnl \in -3..13, c \in {-2, -1, 0, 1}}
    \cup {Row(0, "XYZ", 0, 0, 10000, -1000), Row(0, "XYZ", 0, 0, 500, -1000)}

(* trading days with calendar days without trades between them *)
GapLedgers ==
    {[i \in 1..Len(p) |-> Row(i * i * TicksPerDay, "XYZ", 0, 0, p[i], 0)] :
        p \in SeqsUpTo({-2, 1}, MaxGapRows)}

(* small and large wins against one size of loss, one trade per day *)
InsightLedgers ==
    {[i \in 1..Len(p) |-> Row(i * TicksPerDay, "XYZ", 0, 0, p[i], -1)] :
        p \in SeqsUpTo({-3000, 100, 10000}, MaxInsightRows)}

(* losing trades in a row, one per day *)
LossRunLedgers ==
    {[i \in 1..k |-> Row(i * TicksPerDay, "XYZ", 0, 0, -3000, -1)] : k \in 0..MaxLossRun}

(* ledgers as read from the export, some cells of which name no date *)
TextRows == {Row(t, "XYZ", 0, 0, pnl, 0) : t \in {NotADate, 0, TicksPerDay}, pnl \in {-2, 1}}

TextLedgers == SeqsUpTo(TextRows, MaxTextRows)

TradeLedgers ==
    SeqsUpTo(EquityRows, MaxRows) \cup StreakLedgers
    \cup SymbolLedgers \cup SeqsUpTo(GradeRows, 1)
    \cup GapLedgers \cup InsightLedgers \cup LossRunLedgers

(* buys and sells of one symbol, prices in dollars *)
LotRows ==
    {Row(t, "XYZ", q, p, 0, c) : t \in {0, 1}, q \in {5, 10}, p \in {1, 2}, c \in {0, -5}}
    \cup {Row(t, "XYZ", q, 2, 0, 0) : t \in {0, 1}, q \in {-15, -5}}

LotLedgers == SeqsUpTo(LotRows, MaxLotRows)

(* one trade a tick, each a sell of 10 or a buy of 15 at one price, free of *)
(* commission: ledgers that sell what is not held                           *)
OversellLedgers ==
    UNION {{[i \in 1..n |-> Row(i - 1, "XYZ", q[i], p, 0, 0)] :
               q \in [1..n -> {-10, 15}], p \in {1, 2}} : n \in 0..MaxOversellRows}

NoHoldings ==
    /\ symbols_to_fetch = <<>>
    /\ futures = <<>>
    /\ holdings_data = <<>>
    /\ market = <<>>

(* the app hands over a frame whose dates filter_trades_by_date has parsed, *)
(* or the frame as read when no date range is chosen                        *)
Init ==
    /\ pc = "analyze"
    /\ \/ df \in TradeLedgers /\ dtype = "datetime64[ns]"
       \/ df \in TextLedgers /\ dtype = "object"
    /\ locals = NoLocals
    /\ result = NoResult
    /\ symbol_df = <<>>
    /\ lots = <<>>
    /\ li = 0
    /\ avg_cost = FromInt(0)
    /\ NoHoldings

Next == AnalyzeTrades

Spec == Init /\ [][Next]_vars

InitLots ==
    /\ pc = "calc_sort"
    /\ symbol_df \in LotLedgers \cup OversellLedgers
    /\ df = <<>>
    /\ dtype = "datetime64[ns]"
    /\ NoHoldings
    /\ locals = NoLocals
    /\ result = NoResult
    /\ lots = <<>>
    /\ li = 0
    /\ avg_cost = FromInt(0)

NextLots == CalcSort \/ CalcRow \/ CalcReturn

SpecLots == InitLots /\ [][NextLots]_vars

(* frames as read from the export or already parsed, in any row order *)
FilterRows ==
    {Row(t, s, 0, 0, 0, 0) : t \in 0..(Midnight(MaxDate) + TicksPerDay - 1), s \in {"XYZ", "ABC"}}

FilterLedgers == SeqsUpTo(FilterRows, MaxFilterRows)

InitFilter ==
    /\ pc = "filter"
    /\ \/ df \in FilterLedgers /\ dtype \in {"object", "datetime64[ns]"}
       \/ df \in TextLedgers /\ dtype = "object"
    /\ locals = NoLocals
    /\ result = NoResult
    /\ symbol_df = <<>>
    /\ lots = <<>>
    /\ li = 0
    /\ avg_cost = FromInt(0)
    /\ NoHoldings

NextFilter == FilterTradesByDate \/ FilterTradesBySymbol

SpecFilter == InitFilter /\ [][NextFilter]_vars

(* the price the provider quotes *)
LivePrice == 3

NoInfo == [available |-> FALSE, sector |-> NoKey, category |-> NoKey, industry |-> NoKey]

(* what the provider answers for one ticker: an error outside the inner     *)
(* handlers, or a price or none and an info dictionary or none              *)
Answers ==
    {[raises |-> TRUE, lastPrice |-> None, info |-> NoInfo]}
    \cup {[raises |-> FALSE, lastPrice |-> price, info |-> info] :
             price \in {None, LivePrice},
             info \in {NoInfo,
                       [available |-> TRUE, sector |-> "Technology", category |-> NoKey,
                        industry |-> "Software"]}}
    \cup {[raises |-> FALSE, lastPrice |-> LivePrice,
            info |-> [available |-> TRUE, sector |-> NoKey, category |-> "Equity Fund",
                      industry |-> NoKey]]}

(* buys and sells of two symbols, one trade per day *)
HoldingRows == {Row(0, s, q, p, 0, 0) : s \in {"XYZ", "ABC"}, q \in {10, -10}, p \in {1, LivePrice}}

HoldingLedgers ==
    {[i \in 1..Len(l) |-> [l[i] EXCEPT !.TradeDate = i * TicksPerDay]] :
        l \in SeqsUpTo(HoldingRows, MaxHoldingRows)}

(* the same trades in a file that lists the latest trade first *)
HoldingLedgersLatestFirst ==
    {[i \in 1..Len(l) |-> [l[i] EXCEPT !.TradeDate = (Len(l) + 1 - i) * TicksPerDay]] :
        l \in SeqsUpTo(HoldingRows, MaxHoldingRows) \ {<<>>}}

InitHoldings ==
    /\ pc = "holdings"
    /\ df \in HoldingLedgers \cup HoldingLedgersLatestFirst
    /\ dtype = "datetime64[ns]"
    /\ market \in [SymbolsOf(df) -> Answers]
    /\ symbols_to_fetch = <<>>
    /\ futures = <<>>
    /\ holdings_data = <<>>
    /\ locals = NoLocals
    /\ result = NoResult
    /\ symbol_df = <<>>
    /\ lots = <<>>
    /\ li = 0
    /\ avg_cost = FromInt(0)

NextHoldings ==
    \/ PreparePositions
    \/ FetchPrice
    \/ FetchInfo
    \/ Collect
    \/ ReturnHoldings

SpecHoldings == InitHoldings /\ [][NextHoldings]_vars

(* ================================================================ claims *)
Analyzed == pc = "analyzed"
Last(s) == s[Len(s)]
(* the sum of a column over the rows at the given positions *)
SumAt(s, idx, col) == SumSeq([i \in 1..Len(s) |-> IF i \in idx THEN s[i][col] ELSE 0])

(* C1: for a non-empty ledger the equity curve has one point per calendar   *)
(* date in ascending order, each point is the realized P/L of all rows up   *)
(* to that date, and its last value equals total_pnl_net, the sum of        *)
(* realized P/L over all rows.                                              *)
C1_EquityEndsAtTotalPnl ==
    (Analyzed /\ Len(df) > 0) =>
        /\ Len(result.equity_curve) = Cardinality({DateOf(df[i].TradeDate) : i \in 1..Len(df)})
        /\ Len(result.equity_dates) = Len(result.equity_curve)
        /\ \A i, j \in 1..Len(result.equity_dates) :
              i < j => result.equity_dates[i] < result.equity_dates[j]
        /\ \A k \in 1..Len(result.equity_curve) :
              result.equity_curve[k] =
                 SumAt(df, {i \in 1..Len(df) :
                                DateOf(df[i].TradeDate) <= result.equity_dates[k]},
                       "FifoPnlRealized")
        /\ result.total_pnl_net = SumSeq(Column(df, "FifoPnlRealized"))
        /\ Last(result.equity_curve) = result.total_pnl_net

C1_Witness ==
    /\ Analyzed
    /\ Len(result.equity_curve) >= 2
    /\ Len(df) > Len(result.equity_curve)
    /\ result.total_pnl_net # 0
    /\ result.equity_curve[1] # result.total_pnl_net

(* C2: every point of the drawdown series is the equity minus the greatest  *)
(* equity so far and is <= 0, and max_drawdown is the least point of the    *)
(* series.                                                                  *)
C2_DrawdownNonPositive ==
    Analyzed =>
        /\ Len(result.drawdown_curve) = Len(result.equity_curve)
        /\ \A i \in 1..Len(result.drawdown_curve) :
              /\ result.drawdown_curve[i] <= 0
              /\ \E j \in 1..i :
                    /\ result.drawdown_curve[i] = result.equity_curve[i] - result.equity_curve[j]
                    /\ \A k \in 1..i : result.equity_curve[k] <= result.equity_curve[j]
        /\ result.drawdown_curve # <<>> =>
              /\ result.max_drawdown.d = 1
              /\ \E i \in 1..Len(result.drawdown_curve) :
                    result.drawdown_curve[i] = result.max_drawdown.n
              /\ \A i \in 1..Len(result.drawdown_curve) :
                    result.max_drawdown.n <= result.drawdown_curve[i]

C2_Witness ==
    /\ Analyzed
    /\ Len(result.drawdown_curve) >= 3
    /\ result.drawdown_curve[2] < 0
    /\ result.drawdown_curve[3] = 0
    /\ result.max_drawdown = FromInt(result.drawdown_curve[2])

ClosedIdx == {i \in 1..Len(df) : df[i].FifoPnlRealized # 0}
WinIdx == {i \in 1..Len(df) : df[i].FifoPnlRealized > 0}
LossIdx == {i \in 1..Len(df) : df[i].FifoPnlRealized < 0}

(* C3 as stated: profit_factor is 0 exactly when the closed-trade set is    *)
(* empty.                                                                   *)
C3_ZeroIffNoClosedTrades ==
    Analyzed => (FEq(result.profit_factor, FromInt(0)) <=> ClosedIdx = {})

(* C3 as amended: profit_factor is 0 exactly when the closed-trade set has  *)
(* no winning trade, which covers the empty closed-trade set.               *)
C3_ZeroIffNoWinningTrade ==
    Analyzed =>
        /\ FEq(result.profit_factor, FromInt(0)) <=> WinIdx = {}
        /\ ClosedIdx = {} => result.profit_factor = FromInt(0)

C3_Witness ==
    /\ Analyzed
    /\ ClosedIdx # {}
    /\ WinIdx = {}
    /\ FEq(result.profit_factor, FromInt(0))

(* C4: profit_factor is +infinity exactly when there is a closed trade and  *)
(* no losing one; with a losing trade it is gross profit / gross loss.      *)
C4_InfiniteIffNoLosingTrade ==
    Analyzed =>
        /\ IsInf(result.profit_factor) <=> (ClosedIdx # {} /\ LossIdx = {})
        /\ LossIdx # {} =>
              /\ IsFinite(result.profit_factor)
              /\ FEq(result.profit_factor,
                     Frac(SumAt(df, WinIdx, "FifoPnlRealized"),
                          -SumAt(df, LossIdx, "FifoPnlRealized")))

C4_Witness ==
    /\ Analyzed
    /\ Cardinality(WinIdx) >= 2
    /\ LossIdx = {}
    /\ result.profit_factor = Inf

C4_WitnessRatio ==
    /\ Analyzed
    /\ Column(result.processed_df, "FifoPnlRealized") = <<100, -50, 30>>
    /\ FEq(result.profit_factor, Frac(26, 10))

(* the ledger sorted by TradeDate, ties kept in their original row order *)
RECURSIVE StableSortByDate(_)
StableSortByDate(s) ==
    IF s = <<>> THEN <<>>
    ELSE LET first == MinOf({i \in 1..Len(s) :
                                \A j \in 1..Len(s) : s[i].TradeDate <= s[j].TradeDate})
         IN  <<s[first]>> \o
             StableSortByDate(SubSeq(s, 1, first - 1) \o SubSeq(s, first + 1, Len(s)))

(* C6: the sorted ledger is the input ordered ascending by TradeDate with   *)
(* rows of equal TradeDate in their original order, and the closed trades   *)
(* are its rows of non-zero realized P/L in that order.                     *)
C6_SortIsStable ==
    Analyzed =>
        /\ locals.df = StableSortByDate(df)
        /\ Column(result.processed_df, "FifoPnlRealized") =
              Column(SelectSeq(StableSortByDate(df), LAMBDA r : r.FifoPnlRealized # 0),
                     "FifoPnlRealized")

(* the part of C6 the code does keep: ascending TradeDate, same rows *)
C6_SortIsAscending ==
    Analyzed =>
        /\ Len(locals.df) = Len(df)
        /\ \A i, j \in 1..Len(locals.df) :
              i < j => locals.df[i].TradeDate <= locals.df[j].TradeDate

(* longest run of consecutive trades of one tag, 0 without any *)
LongestRun(tags, tag) ==
    LET runs == {w \in (1..Len(tags)) \X (1..Len(tags)) :
                    w[1] <= w[2] /\ \A k \in w[1]..w[2] : tags[k] = tag}
    IN  IF runs = {} THEN 0 ELSE MaxOf({w[2] - w[1] + 1 : w \in runs})

ClosedPnl == Column(result.processed_df, "FifoPnlRealized")

(* C7: max_win_streak is the length of the longest run of consecutive       *)
(* winning closed trades, max_loss_streak that of consecutive non-winning   *)
(* closed trades, 0 without such a run; P/L [+100, -50, +30] gives 1.       *)
C7_MaxStreaks ==
    Analyzed =>
        /\ result.max_win_streak = LongestRun([i \in 1..Len(ClosedPnl) |-> ClosedPnl[i] > 0], TRUE)
        /\ result.max_loss_streak = LongestRun([i \in 1..Len(ClosedPnl) |-> ClosedPnl[i] > 0], FALSE)
        /\ ClosedPnl = <<100, -50, 30>> => result.max_win_streak = 1

C7_Witness ==
    /\ Analyzed
    /\ ClosedPnl = <<100, -50, 30>>
    /\ result.max_win_streak = 1
    /\ result.max_loss_streak = 1

C7_WitnessLongRun ==
    /\ Analyzed
    /\ ClosedPnl = <<100, 30, -50, 30>>
    /\ result.max_win_streak = 2

RECURSIVE ExpandRuns(_)
ExpandRuns(runs) ==
    IF runs = <<>> THEN <<>>
    ELSE [i \in 1..runs[1].size |-> runs[1].first] \o ExpandRuns(Tail(runs))

(* C8: the runs of the streak detector, laid end to end, are the win/loss   *)
(* tags of the closed trades; every run is non-empty, adjacent runs have    *)
(* different tags and the run lengths sum to the number of closed trades.   *)
C8_StreaksPartition ==
    Analyzed =>
        /\ ExpandRuns(locals.streaks) = [i \in 1..Len(ClosedPnl) |-> ClosedPnl[i] > 0]
        /\ \A g \in 1..Len(locals.streaks) : locals.streaks[g].size >= 1
        /\ \A g \in 1..Len(locals.streaks) - 1 :
              locals.streaks[g].first # locals.streaks[g + 1].first
        /\ SumSeq(Column(locals.streaks, "size")) = result.total_trades
        /\ result.total_trades = Cardinality(ClosedIdx)

C8_Witness ==
    /\ Analyzed
    /\ Len(locals.streaks) = 3
    /\ locals.streaks[2].size = 2
    /\ result.total_trades = 4
    /\ Len(df) = 4

(* C9: each closed trade is graded by net = realizedPnL + commission and    *)
(* feeCost = |commission| (one cent when the commission is 0): A+ above     *)
(* 5 feeCost, A above 3, B above 1, C above 0, D above -feeCost, else F.    *)
C9_GradeRule ==
    Analyzed =>
        \A i \in 1..Len(result.processed_df) :
            LET r == result.processed_df[i]
                net == r.FifoPnlRealized + r.IBCommission
                feeCost == IF r.IBCommission = 0 THEN 1 ELSE Abs(r.IBCommission)
            IN  /\ r.Grade \in Grades
                /\ r.Grade = "A+" <=> net > 5 * feeCost
                /\ r.Grade = "A" <=> (net > 3 * feeCost /\ net <= 5 * feeCost)
                /\ r.Grade = "B" <=> (net > feeCost /\ net <= 3 * feeCost)
                /\ r.Grade = "C" <=> (net > 0 /\ net <= feeCost)
                /\ r.Grade = "D" <=> (net > -feeCost /\ net <= 0)
                /\ r.Grade = "F" <=> net <= -feeCost
                /\ (r.FifoPnlRealized = 10000 /\ r.IBCommission = -1000) => r.Grade = "A+"
                /\ (r.FifoPnlRealized = 500 /\ r.IBCommission = -1000) => r.Grade = "D"

C9_Witness ==
    /\ Analyzed
    /\ Len(result.processed_df) = 1
    /\ result.processed_df[1].FifoPnlRealized = 500
    /\ result.processed_df[1].IBCommission = -1000
    /\ result.processed_df[1].Grade = "D"

C9_WitnessFloor ==
    /\ Analyzed
    /\ Len(result.processed_df) = 1
    /\ result.processed_df[1].IBCommission = 0
    /\ result.processed_df[1].Grade = "B"

(* C10: the symbol table has one row per symbol of the ledger, with Trades  *)
(* the number of its rows of non-zero realized P/L, NetPnL the sum of its   *)
(* realized P/L, Fees the sum of the commissions of all its rows, and       *)
(* WinRate = Wins / Trades * 100, 0 without trades.                         *)
C10_SymbolTable ==
    Analyzed =>
        /\ {result.symbol_stats[k].Symbol : k \in 1..Len(result.symbol_stats)}
              = {df[i].Symbol : i \in 1..Len(df)}
        /\ Len(result.symbol_stats) = Cardinality({df[i].Symbol : i \in 1..Len(df)})
        /\ \A k \in 1..Len(result.symbol_stats) :
              LET row == result.symbol_stats[k]
                  mine == {i \in 1..Len(df) : df[i].Symbol = row.Symbol}
                  nWins == Cardinality(mine \cap WinIdx)
              IN  /\ row.Trades = Cardinality(mine \cap ClosedIdx)
                  /\ row.NetPnL = SumAt(df, mine, "FifoPnlRealized")
                  /\ row.Fees = SumAt(df, mine, "IBCommission")
                  /\ row.Trades = 0 => row.WinRate = FromInt(0)
                  /\ row.Trades > 0 => FEq(row.WinRate, Frac(nWins * 100, row.Trades))
        /\ (\E i, j \in 1..Len(df) :
              /\ {m \in 1..Len(df) : df[m].Symbol = "XYZ"} = {i, j}
              /\ df[i].FifoPnlRealized = 0 /\ df[i].IBCommission = -100
              /\ df[j].FifoPnlRealized = 5000 /\ df[j].IBCommission = -100)
           => \E k \in 1..Len(result.symbol_stats) :
                 /\ result.symbol_stats[k].Symbol = "XYZ"
                 /\ result.symbol_stats[k].NetPnL = 5000
                 /\ result.symbol_stats[k].Fees = -200
                 /\ result.symbol_stats[k].Trades = 1
                 /\ FEq(result.symbol_stats[k].WinRate, FromInt(100))

C10_Witness ==
    /\ Analyzed
    /\ Len(df) = 3
    /\ df[1].Symbol = "XYZ" /\ df[1].FifoPnlRealized = 0 /\ df[1].IBCommission = -100
    /\ df[2].Symbol = "ABC" /\ df[2].FifoPnlRealized = 0
    /\ df[3].Symbol = "XYZ" /\ df[3].FifoPnlRealized = 5000 /\ df[3].IBCommission = -100
    /\ \E k \in 1..Len(result.symbol_stats) :
          /\ result.symbol_stats[k].Symbol = "XYZ"
          /\ result.symbol_stats[k].Fees = -200
          /\ result.symbol_stats[k].Trades = 1
          /\ FEq(result.symbol_stats[k].WinRate, FromInt(100))
    /\ \E k \in 1..Len(result.symbol_stats) :
          /\ result.symbol_stats[k].Symbol = "ABC"
          /\ result.symbol_stats[k].Trades = 0
          /\ result.symbol_stats[k].WinRate = FromInt(0)

PrefixQty(ls, k) == SumSeq(Column(SubSeq(ls, 1, k), "quantity"))

(* after selling s, the k oldest lots that fit into s whole are gone, the   *)
(* next lot has lost what was left of s, and the later lots are untouched   *)
SoldOldestFirst(before, after, s) ==
    \E k \in 0..Len(before) :
        /\ PrefixQty(before, k) <= s
        /\ k < Len(before) => PrefixQty(before, k + 1) > s
        /\ after = IF k = Len(before) THEN <<>>
                   ELSE <<[quantity |-> before[k + 1].quantity - (s - PrefixQty(before, k)),
                           price |-> before[k + 1].price]>>
                        \o SubSeq(before, k + 2, Len(before))

RECURSIVE LotsValue(_)
LotsValue(ls) ==
    IF ls = <<>> THEN FromInt(0)
    ELSE FAdd(FMul(FromInt(Head(ls).quantity), Head(ls).price), LotsValue(Tail(ls)))

RowsAre(rows, qtys, prices) ==
    /\ Column(rows, "Quantity") = qtys
    /\ Column(rows, "TradePrice") = prices
    /\ \A i \in 1..Len(rows) : rows[i].IBCommission = 0

(* C5: every sell consumes the lots oldest first; the average cost returned *)
(* is the quantity-weighted mean of the unit cost of the surviving lots, 0  *)
(* without any; buys 10@1 and 10@2 then a sell of 15 leave one lot 5@2 and  *)
(* an average cost of 2.                                                    *)
C5_FifoOldestFirst ==
    /\ [][(pc = "calc_loop" /\ li' = li + 1 /\ symbol_df[li].Quantity < 0)
             => SoldOldestFirst(lots, lots', -symbol_df[li].Quantity)]_vars
    /\ [](pc = "calc_done" =>
             /\ lots = <<>> => avg_cost = FromInt(0)
             /\ lots # <<>> =>
                   /\ IsFinite(avg_cost)
                   /\ FEq(FMul(avg_cost, FromInt(SumSeq(Column(lots, "quantity")))),
                          LotsValue(lots))
             /\ RowsAre(symbol_df, <<10, 10, -15>>, <<1, 2, 2>>) =>
                   /\ Len(lots) = 1
                   /\ lots[1].quantity = 5
                   /\ FEq(lots[1].price, FromInt(2))
                   /\ FEq(avg_cost, FromInt(2)))

C5_Witness ==
    /\ pc = "calc_done"
    /\ RowsAre(symbol_df, <<10, 10, -15>>, <<1, 2, 2>>)
    /\ Len(lots) = 1
    /\ lots[1].quantity = 5
    /\ FEq(avg_cost, FromInt(2))

(* C21: a sell of more than the lots hold leaves the queue empty, and every *)
(* buy appends a lot of its full quantity whatever was sold before: the     *)
(* excess of an earlier sell is not carried forward. A sell of 10 with no   *)
(* lots followed by a buy of 15 at p leaves the single lot 15 at p.         *)
C21_ExcessSellIsDropped ==
    /\ [][(pc = "calc_loop" /\ li' = li + 1) =>
             LET row == symbol_df[li]
             IN  /\ (row.Quantity < 0 /\ -row.Quantity > TotalShares(lots)) =>
                        lots' = <<>>
                 /\ row.Quantity > 0 =>
                        /\ Len(lots') = Len(lots) + 1
                        /\ SubSeq(lots', 1, Len(lots)) = lots
                        /\ lots'[Len(lots')].quantity = row.Quantity
                        /\ TotalShares(lots') = TotalShares(lots) + row.Quantity]_vars
    /\ [](pc = "calc_done" =>
             \A p \in {1, 2} :
                 RowsAre(symbol_df, <<-10, 15>>, <<p, p>>) =>
                     lots = <<[quantity |-> 15, price |-> FromInt(p)]>>)

C21_Witness ==
    /\ pc = "calc_done"
    /\ RowsAre(symbol_df, <<-10, 15>>, <<2, 2>>)
    /\ lots = <<[quantity |-> 15, price |-> FromInt(2)]>>

(* a sell of 15 against lots of 10 in all has emptied the queue, and the    *)
(* buy after it has been processed                                          *)
C21_WitnessPartlyHeld ==
    /\ pc = "calc_done"
    /\ RowsAre(symbol_df, <<10, -15, 5>>, <<1, 2, 1>>)
    /\ lots = <<[quantity |-> 5, price |-> FromInt(1)]>>

(* C11: a symbol without closed trades has Wins 0, Losses 0, BestTrade 0    *)
(* and WorstTrade 0 in the symbol table, also when other symbols of the     *)
(* ledger have closed trades.                                               *)
C11_NoClosedTradesDefaults ==
    Analyzed =>
        \A k \in 1..Len(result.symbol_stats) :
            LET row == result.symbol_stats[k]
                mine == {i \in 1..Len(df) : df[i].Symbol = row.Symbol}
            IN  mine \cap ClosedIdx = {} =>
                    /\ row.Wins = 0
                    /\ row.Losses = 0
                    /\ row.BestTrade = FromInt(0)
                    /\ row.WorstTrade = FromInt(0)

(* what holds of the code: the counts are 0, best and worst trade are 0     *)
(* only when the whole ledger has no closed trade and missing otherwise     *)
C11_CountsDefaultToZero ==
    Analyzed =>
        \A k \in 1..Len(result.symbol_stats) :
            LET row == result.symbol_stats[k]
                mine == {i \in 1..Len(df) : df[i].Symbol = row.Symbol}
            IN  mine \cap ClosedIdx = {} =>
                    /\ row.Wins = 0
                    /\ row.Losses = 0
                    /\ ClosedIdx = {} => row.BestTrade = FromInt(0) /\ row.WorstTrade = FromInt(0)
                    /\ ClosedIdx # {} => IsNaN(row.BestTrade) /\ IsNaN(row.WorstTrade)

(* C17: for a ledger without closed trades, the empty ledger included,      *)
(* analyze_trades returns max_drawdown 0, max_drawdown_pct 0,               *)
(* max_dd_duration 0 and 0 for every closed-trade statistic.                *)
C17_ZeroDefaults ==
    (Analyzed /\ ClosedIdx = {}) =>
        /\ result.returned
        /\ result.max_drawdown = FromInt(0)
        /\ result.max_drawdown_pct = FromInt(0)
        /\ result.max_dd_duration = 0
        /\ result.total_trades = 0
        /\ result.num_wins = 0 /\ result.num_losses = 0 /\ result.num_breakeven = 0
        /\ result.win_rate = FromInt(0)
        /\ result.avg_win = FromInt(0) /\ result.avg_loss = FromInt(0)
        /\ result.largest_win = 0 /\ result.largest_loss = 0
        /\ result.profit_factor = FromInt(0)
        /\ result.avg_rr_ratio = FromInt(0)
        /\ result.expectancy = FromInt(0)
        /\ result.max_win_streak = 0 /\ result.max_loss_streak = 0
        /\ result.fear_index = FromInt(0)

(* what holds of the code: the same with a non-empty ledger, and with the   *)
(* empty ledger everything but max_drawdown, which is missing (NaN)         *)
C17_ZeroDefaultsButEmptyDrawdown ==
    (Analyzed /\ ClosedIdx = {}) =>
        /\ result.returned
        /\ df # <<>> => result.max_drawdown = FromInt(0)
        /\ df = <<>> => IsNaN(result.max_drawdown)
        /\ result.max_drawdown_pct = FromInt(0)
        /\ result.max_dd_duration = 0
        /\ result.total_trades = 0
        /\ result.win_rate = FromInt(0)
        /\ result.profit_factor = FromInt(0)
        /\ result.expectancy = FromInt(0)
        /\ result.max_win_streak = 0 /\ result.max_loss_streak = 0
        /\ result.fear_index = FromInt(0)

(* C18: max_dd_duration is the length of the longest run of consecutive     *)
(* points of the equity curve with a negative drawdown, 0 when there is     *)
(* none; it counts points of the curve, whatever the calendar distance      *)
(* between their dates.                                                     *)
C18_LongestDrawdownRun ==
    Analyzed =>
        /\ result.max_dd_duration =
              LongestRun([i \in 1..Len(result.drawdown_curve) |-> result.drawdown_curve[i] < 0],
                         TRUE)
        /\ (\A i \in 1..Len(result.drawdown_curve) : result.drawdown_curve[i] = 0)
              => result.max_dd_duration = 0
        /\ result.max_dd_duration <= Len(result.equity_dates)

(* two drawdowns of one and of two trading days, the longer one spanning    *)
(* more calendar days than it has points                                    *)
C18_Witness ==
    /\ Analyzed
    /\ Len(result.drawdown_curve) = 4
    /\ result.drawdown_curve[1] = 0
    /\ result.drawdown_curve[2] < 0
    /\ result.drawdown_curve[3] < 0
    /\ result.drawdown_curve[4] = 0
    /\ result.equity_dates[3] - result.equity_dates[2] > 2
    /\ result.max_dd_duration = 2

C18_WitnessReset ==
    /\ Analyzed
    /\ Len(result.drawdown_curve) = 4
    /\ result.drawdown_curve[2] < 0
    /\ result.drawdown_curve[3] = 0
    /\ result.drawdown_curve[4] < 0
    /\ result.max_dd_duration = 1

HasInsight(text) == \E k \in 1..Len(result.insights) : result.insights[k].msg = text

(* the place of a message in the fixed order of the insights *)
InsightKind(text) ==
    CASE text \in {"Low win rate (<40%). Consider improving trade selection.",
                   "High win rate (>70%). Good trade selection!"} -> 1
      [] text \in {"Risk/Reward ratio below 1.5:1. Losses are too large relative to wins.",
                   "Excellent Risk/Reward ratio (>2.5:1)!"} -> 2
      [] text \in {"Profit factor <1. Overall unprofitable.", "Strong profit factor (>2)!"} -> 3
      [] text = "High Fear Index (>50%). You are cutting winners too early." -> 4
      [] text = "Commissions eating >30% of gross profits. Reduce frequency or increase size." -> 5
      [] text = "Long losing streak (N trades)." -> 6
      [] text \in {"Positive expectancy ($X per trade).", "Negative expectancy ($X per trade)."} -> 7
      [] OTHER -> 8

(* C19: the insights come in the order win rate, risk/reward, profit        *)
(* factor, fear index, commission, loss streak, expectancy, best weekday,   *)
(* and each message is present exactly when its gate holds of the returned  *)
(* aggregates.                                                              *)
C19_InsightGates ==
    Analyzed =>
        LET ins == result.insights
            rrGate == result.avg_win.n > 0 /\ result.avg_loss.n < 0
        IN  /\ \A i, j \in 1..Len(ins) : i < j => InsightKind(ins[i].msg) < InsightKind(ins[j].msg)
            /\ HasInsight("Low win rate (<40%). Consider improving trade selection.")
                  <=> FLt(result.win_rate, FromInt(40))
            /\ HasInsight("High win rate (>70%). Good trade selection!")
                  <=> FLt(FromInt(70), result.win_rate)
            /\ HasInsight("Risk/Reward ratio below 1.5:1. Losses are too large relative to wins.")
                  <=> (rrGate /\ FLt(result.avg_rr_ratio, Frac(3, 2)))
            /\ HasInsight("Excellent Risk/Reward ratio (>2.5:1)!")
                  <=> (rrGate /\ FLt(Frac(5, 2), result.avg_rr_ratio))
            /\ HasInsight("Profit factor <1. Overall unprofitable.")
                  <=> FLt(result.profit_factor, FromInt(1))
            /\ HasInsight("Strong profit factor (>2)!")
                  <=> (IsInf(result.profit_factor) \/ FLt(FromInt(2), result.profit_factor))
            /\ HasInsight("High Fear Index (>50%). You are cutting winners too early.")
                  <=> FLt(FromInt(50), result.fear_index)
            /\ HasInsight("Commissions eating >30% of gross profits. Reduce frequency or increase size.")
                  <=> FLt(FromInt(30), result.commission_pct)
            /\ HasInsight("Long losing streak (N trades).") <=> result.max_loss_streak >= 5
            /\ \A k \in 1..Len(ins) :
                  ins[k].msg = "Long losing streak (N trades)." => ins[k].value = result.max_loss_streak
            /\ HasInsight("Positive expectancy ($X per trade).")
                  <=> FLt(FromInt(0), result.expectancy)
            /\ HasInsight("Negative expectancy ($X per trade).")
                  <=> ~FLt(FromInt(0), result.expectancy)
            /\ (\E n \in Range(day_order) : HasInsight(BestDayText[n])) <=> result.total_trades > 0
            /\ \A n \in Range(day_order) :
                  HasInsight(BestDayText[n]) =>
                      \E k \in 1..Len(result.dow_performance) :
                          /\ result.dow_performance[k].DayOfWeek = n
                          /\ \A m \in 1..Len(result.dow_performance) :
                                result.dow_performance[m].sum <= result.dow_performance[k].sum

(* five losses in a row: low win rate, profit factor, streak, expectancy, day *)
C19_Witness ==
    /\ Analyzed
    /\ result.max_loss_streak = 5
    /\ Len(result.insights) = 5
    /\ result.insights[1].msg = "Low win rate (<40%). Consider improving trade selection."
    /\ result.insights[2].msg = "Profit factor <1. Overall unprofitable."
    /\ result.insights[3] = Insight("Long losing streak (N trades).", 5)
    /\ result.insights[4].msg = "Negative expectancy ($X per trade)."
    /\ InsightKind(result.insights[5].msg) = 8

(* small wins beside a large one and no loss: an infinite profit factor     *)
(* counts as strong, and the fear index is reported                         *)
C19_WitnessFear ==
    /\ Analyzed
    /\ result.total_trades > 0
    /\ IsInf(result.profit_factor)
    /\ Column(result.insights, "msg") =
          <<"High win rate (>70%). Good trade selection!",
            "Strong profit factor (>2)!",
            "High Fear Index (>50%). You are cutting winners too early.",
            "Positive expectancy ($X per trade).",
            BestDayText[best_day(locals.df)]>>

(* middling aggregates: neither win-rate, risk/reward nor profit-factor message *)
C19_WitnessUngated ==
    /\ Analyzed
    /\ result.total_trades > 0
    /\ result.avg_win.n > 0 /\ result.avg_loss.n < 0
    /\ Len(result.insights) = 2
    /\ result.insights[1].msg = "Positive expectancy ($X per trade)."
    /\ InsightKind(result.insights[2].msg) = 8

(* fees above 30% of the net P/L *)
C19_WitnessCommission ==
    /\ Analyzed
    /\ FLt(FromInt(30), result.commission_pct)
    /\ HasInsight("Commissions eating >30% of gross profits. Reduce frequency or increase size.")
    /\ HasInsight("Risk/Reward ratio below 1.5:1. Losses are too large relative to wins.")

(* one loss against larger wins *)
C19_WitnessRiskReward ==
    /\ Analyzed
    /\ HasInsight("Excellent Risk/Reward ratio (>2.5:1)!")
    /\ FLt(Frac(5, 2), result.avg_rr_ratio)

(* C20: when a TradeDate of the ledger is text that names no date,          *)
(* analyze_trades ends in an error and returns no result bundle; no row is  *)
(* dropped and no date is made up.                                          *)
C20_UnparseableDateIsFatal ==
    (pc # "analyze" /\ \E i \in 1..Len(df) : df[i].TradeDate = NotADate) =>
        /\ pc = "raised"
        /\ result = NoResult

C20_Witness ==
    /\ pc = "raised"
    /\ Len(df) = 2
    /\ df[1].TradeDate = 0
    /\ df[2].TradeDate = NotADate
    /\ result = NoResult

(* text that names dates is parsed and the ledger analyzed *)
C20_WitnessParsed ==
    /\ Analyzed
    /\ dtype = "object"
    /\ Len(df) = 2
    /\ result.equity_dates = <<0, 1>>

(* C15: filter_trades_by_date and filter_trades_by_symbol leave the frame   *)
(* they are given as it was: its rows and the type of its columns are the   *)
(* same after the call as before, whatever bounds and symbols are passed.   *)
C15_FiltersArePure ==
    [][(pc = "filter" /\ pc' = "filtered") => (df' = df /\ dtype' = dtype)]_vars

(* what holds of the code: filter_trades_by_symbol leaves the frame alone,  *)
(* filter_trades_by_date leaves the rows alone and turns the TradeDate      *)
(* column into timestamps                                                   *)
C15_OnlyTradeDateIsRewritten ==
    [][(pc = "filter" /\ pc' = "filtered") =>
          /\ df' = df
          /\ locals'.call = "filter_trades_by_symbol" => dtype' = dtype
          /\ locals'.call = "filter_trades_by_date" => dtype' = "datetime64[ns]"]_vars

(* the frame read from the export has become a frame of timestamps *)
C15_RewrittenReached ==
    /\ pc = "filtered"
    /\ locals.call = "filter_trades_by_date"
    /\ dtype = "datetime64[ns]"
    /\ Len(df) = 2
    /\ Len(result.rows) = 1

FilteredByDate == pc = "filtered" /\ locals.call = "filter_trades_by_date"

(* C16: filter_trades_by_date returns, in their order, exactly the rows     *)
(* whose TradeDate falls on a date from start to end, both dates included,  *)
(* an absent bound not limiting that side; every trade of the end date is   *)
(* kept.                                                                    *)
C16_InclusiveDateRange ==
    FilteredByDate =>
        result.rows = SelectSeq(df, LAMBDA r :
            /\ locals.start_date # None => DateOf(r.TradeDate) >= locals.start_date
            /\ locals.end_date # None => DateOf(r.TradeDate) <= locals.end_date)

(* what holds of the code: the end bound is the midnight that opens the end *)
(* date, so of the end date only a trade at midnight is kept                *)
C16_EndBoundIsMidnight ==
    FilteredByDate =>
        result.rows = SelectSeq(df, LAMBDA r :
            /\ locals.start_date # None => DateOf(r.TradeDate) >= locals.start_date
            /\ locals.end_date # None => r.TradeDate <= locals.end_date * TicksPerDay)

(* a trade of the end date, after midnight, is missing from the result *)
C16_EndDateTradeDropped ==
    /\ FilteredByDate
    /\ locals.start_date = 0 /\ locals.end_date = 1
    /\ Len(df) = 2
    /\ DateOf(df[1].TradeDate) = 0
    /\ DateOf(df[2].TradeDate) = 1
    /\ Len(result.rows) = 1

Returned == pc = "returned"
IdxOfSymbol(s) == {i \in 1..Len(df) : df[i].Symbol = s}
NetQty(s) == SumAt(df, IdxOfSymbol(s), "Quantity")
OpenSymbols == {s \in {df[i].Symbol : i \in 1..Len(df)} : NetQty(s) > 0}
(* the price of the last row of the symbol in the ledger *)
LedgerLastPrice(s) == df[MaxOf(IdxOfSymbol(s))].TradePrice
PriceAvailable(s) == ~market[s].raises /\ market[s].lastPrice # None
InfoAvailable(s) == ~market[s].raises /\ market[s].info.available

SlotOf(s) == CHOOSE i \in 1..Len(symbols_to_fetch) : symbols_to_fetch[i].symbol = s

(* C13: the holdings table is the same for every order in which the         *)
(* lookups complete: its rows are in descending market value, and rows of   *)
(* equal market value in the order of their slots.                          *)
C13_OrderIndependentOfCompletion ==
    Returned =>
        \A i, j \in 1..Len(result.holdings) :
            i < j =>
                \/ result.holdings[i].MarketValue > result.holdings[j].MarketValue
                \/ /\ result.holdings[i].MarketValue = result.holdings[j].MarketValue
                   /\ SlotOf(result.holdings[i].Symbol) < SlotOf(result.holdings[j].Symbol)

(* what holds of the code: descending market value, and the rows are those  *)
(* collected, in whatever order the lookups completed                       *)
C13_DescendingMarketValue ==
    Returned =>
        /\ \A i, j \in 1..Len(result.holdings) :
              i < j => result.holdings[i].MarketValue >= result.holdings[j].MarketValue
        /\ {result.holdings[k].Symbol : k \in 1..Len(result.holdings)}
              = {holdings_data[k].Symbol : k \in 1..Len(holdings_data)}

(* one ledger and one set of answers, two tables: the tie in slot order...  *)
C13_TieInSlotOrder ==
    /\ Returned
    /\ Column(df, "Symbol") = <<"XYZ", "ABC">>
    /\ \A s \in {"XYZ", "ABC"} : PriceAvailable(s) /\ ~InfoAvailable(s)
    /\ Column(result.holdings, "MarketValue") = <<10 * LivePrice, 10 * LivePrice>>
    /\ Column(result.holdings, "Symbol") = <<"XYZ", "ABC">>

(* ... and against it *)
C13_TieAgainstSlotOrder ==
    /\ Returned
    /\ Column(df, "Symbol") = <<"XYZ", "ABC">>
    /\ \A s \in {"XYZ", "ABC"} : PriceAvailable(s) /\ ~InfoAvailable(s)
    /\ Column(result.holdings, "MarketValue") = <<10 * LivePrice, 10 * LivePrice>>
    /\ Column(result.holdings, "Symbol") = <<"ABC", "XYZ">>
    /\ Column(holdings_data, "Symbol") = <<"ABC", "XYZ">>

(* C14: when the price lookup, the sector lookup or both fail for a symbol, *)
(* its holding has the ledger's last trade price as current price and       *)
(* "Unknown" as sector and as industry.                                     *)
C14_FallbackOnAnyFailure ==
    Returned =>
        \A k \in 1..Len(result.holdings) :
            LET row == result.holdings[k]
            IN  (~PriceAvailable(row.Symbol) \/ ~InfoAvailable(row.Symbol)) =>
                    /\ row.CurrentPrice = LedgerLastPrice(row.Symbol)
                    /\ row.Sector = "Unknown"
                    /\ row.Industry = "Unknown"

(* what holds of the code: each part falls back on its own, and both do     *)
(* when the lookup fails as a whole                                         *)
C14_FallbackPerPart ==
    Returned =>
        \A k \in 1..Len(result.holdings) :
            LET row == result.holdings[k]
                s == row.Symbol
            IN  /\ ~PriceAvailable(s) => row.CurrentPrice = LedgerLastPrice(s)
                /\ PriceAvailable(s) => row.CurrentPrice = market[s].lastPrice
                /\ ~InfoAvailable(s) => row.Sector = "Unknown" /\ row.Industry = "Unknown"
                /\ InfoAvailable(s) =>
                      /\ row.Sector = SectorOf(market[s].info)
                      /\ row.Industry = IndustryOf(market[s].info)

(* the price lookup failed, the sector is the provider's all the same *)
C14_SectorKeptWithoutPrice ==
    /\ Returned
    /\ Len(result.holdings) = 1
    /\ ~PriceAvailable(result.holdings[1].Symbol)
    /\ result.holdings[1].CurrentPrice = LedgerLastPrice(result.holdings[1].Symbol)
    /\ result.holdings[1].Sector = "Technology"

(* the sector lookup failed, the price is the provider's all the same *)
C14_PriceKeptWithoutSector ==
    /\ Returned
    /\ Len(result.holdings) = 1
    /\ ~InfoAvailable(result.holdings[1].Symbol)
    /\ LedgerLastPrice(result.holdings[1].Symbol) = 1
    /\ result.holdings[1].CurrentPrice = LivePrice
    /\ result.holdings[1].Sector = "Unknown"

(* the rows of symbol s with the greatest TradeDate *)
LatestIdx(s) ==
    {i \in IdxOfSymbol(s) : \A j \in IdxOfSymbol(s) : df[j].TradeDate <= df[i].TradeDate}

(* C22: whatever the row order of the ledger, the last traded price and the *)
(* last trade date of a position are those of the symbol's row with the     *)
(* greatest TradeDate.                                                      *)
C22_LastTradeIsChronologicallyLatest ==
    pc \in {"fetching", "returned"} =>
        \A k \in 1..Len(symbols_to_fetch) :
            \E i \in LatestIdx(symbols_to_fetch[k].symbol) :
                /\ symbols_to_fetch[k].last_price = df[i].TradePrice
                /\ symbols_to_fetch[k].last_date = df[i].TradeDate

(* what the call does: they are those of the symbol's last row in the order *)
(* of the ledger, also in the holding it returns                            *)
C22_LastTradeIsLastRow ==
    /\ pc \in {"fetching", "returned"} =>
          \A k \in 1..Len(symbols_to_fetch) :
              LET i == MaxOf(IdxOfSymbol(symbols_to_fetch[k].symbol))
              IN  /\ symbols_to_fetch[k].last_price = df[i].TradePrice
                  /\ symbols_to_fetch[k].last_date = df[i].TradeDate
    /\ Returned =>
          \A k \in 1..Len(result.holdings) :
              LET s == result.holdings[k].Symbol
                  i == MaxOf(IdxOfSymbol(s))
              IN  /\ result.holdings[k].LastTradeDate = df[i].TradeDate
                  /\ ~PriceAvailable(s) => result.holdings[k].CurrentPrice = df[i].TradePrice

(* bought at 3 on day 2 and listed first, bought at 1 on day 1 and listed   *)
(* last: the holding is priced at 1 and dated day 1 when the lookup fails   *)
C22_EarlierTradeReported ==
    /\ Returned
    /\ Len(df) = 2
    /\ Column(df, "Symbol") = <<"XYZ", "XYZ">>
    /\ Column(df, "Quantity") = <<10, 10>>
    /\ Column(df, "TradePrice") = <<LivePrice, 1>>
    /\ Column(df, "TradeDate") = <<2 * TicksPerDay, TicksPerDay>>
    /\ market["XYZ"].raises
    /\ Len(result.holdings) = 1
    /\ result.holdings[1].CurrentPrice = 1
    /\ result.holdings[1].LastTradeDate = TicksPerDay

(* in a ledger listed in the order of the trades the two agree *)
C22_ChronologicalLedger ==
    (\A i, j \in 1..Len(df) : i < j => df[i].TradeDate < df[j].TradeDate) =>
        C22_LastTradeIsChronologicallyLatest

(* the sum of the signed quantities of the first k rows the tracker reads *)
NetQtyUpTo(k) == SumSeq(Column(SubSeq(symbol_df, 1, k), "Quantity"))

(* none of the first k rows sold more than was held when it was processed *)
NeverOversold(k) == \A j \in 1..k : NetQtyUpTo(j) >= 0

(* C23: while no sell has exceeded the quantity held, the quantities of the *)
(* lots add up to the running net quantity after every processed row; at    *)
(* the end of such a ledger net quantity times average cost, the cost basis *)
(* of the holding, is the sum of quantity times unit cost of the lots left. *)
C23_LotTotalIsNetQuantity ==
    /\ [][(pc = "calc_loop" /\ li' = li + 1
              /\ -symbol_df[li].Quantity <= TotalShares(lots))
             => TotalShares(lots') = TotalShares(lots) + symbol_df[li].Quantity]_vars
    /\ []((pc \in {"calc_loop", "calc_done"} /\ NeverOversold(li - 1))
             => TotalShares(lots) = NetQtyUpTo(li - 1))
    /\ []((pc = "calc_done" /\ NeverOversold(Len(symbol_df))) =>
             LET netQty == NetQtyUpTo(Len(symbol_df))
                 data == [symbol |-> "XYZ", quantity |-> netQty, avg_cost |-> avg_cost,
                          last_price |-> LivePrice, last_date |-> 0]
             IN  /\ FEq(FMul(FromInt(netQty), avg_cost), LotsValue(lots))
                 /\ netQty > 0 =>
                       FEq(HoldingRow(data, LivePrice, "Unknown", "Unknown").CostBasis,
                           LotsValue(lots)))

(* bought 10 at 1, sold 5, bought 5 at 2: lots 5 at 1 and 5 at 2, net       *)
(* quantity 10, cost basis 15                                               *)
C23_Witness ==
    /\ pc = "calc_done"
    /\ RowsAre(symbol_df, <<10, -5, 5>>, <<1, 2, 2>>)
    /\ NeverOversold(Len(symbol_df))
    /\ Len(lots) = 2
    /\ TotalShares(lots) = 10
    /\ NetQtyUpTo(Len(symbol_df)) = 10
    /\ FEq(FMul(FromInt(10), avg_cost), FromInt(15))

(* a sell of 15 with nothing held, then a buy of 10: the lots hold 10 while *)
(* the net quantity is -5                                                   *)
C23_WitnessOversold ==
    /\ pc = "calc_done"
    /\ Column(symbol_df, "Quantity") = <<-15, 10>>
    /\ ~NeverOversold(Len(symbol_df))
    /\ TotalShares(lots) = 10
    /\ NetQtyUpTo(Len(symbol_df)) = -5

(* C24: with at least one closed trade, expectancy times the number of      *)
(* closed trades is the sum of the realized P/L of the closed trades, so    *)
(* expectancy is their mean, and that sum is total_pnl_net of the whole     *)
(* ledger; the 'Positive expectancy' insight is there exactly when          *)
(* total_pnl_net > 0, the 'Negative expectancy' one otherwise.              *)
C24_ExpectancyIsMeanClosedPnl ==
    (Analyzed /\ result.total_trades > 0) =>
        LET closedSum == SumAt(df, ClosedIdx, "FifoPnlRealized")
        IN  /\ result.total_trades = Cardinality(ClosedIdx)
            /\ IsFinite(result.expectancy)
            /\ FEq(FMul(result.expectancy, FromInt(result.total_trades)), FromInt(closedSum))
            /\ FEq(result.expectancy, Frac(closedSum, result.total_trades))
            /\ closedSum = result.total_pnl_net
            /\ HasInsight("Positive expectancy ($X per trade).") <=> result.total_pnl_net > 0
            /\ HasInsight("Negative expectancy ($X per trade).") <=> result.total_pnl_net <= 0

(* two wins of 100 and a loss of 50 among four rows: expectancy 50 a trade  *)
C24_Witness ==
    /\ Analyzed
    /\ Len(df) = 4
    /\ result.total_trades = 3
    /\ result.num_wins = 2
    /\ result.num_losses = 1
    /\ result.total_pnl_net = 150
    /\ FEq(result.expectancy, FromInt(50))
    /\ HasInsight("Positive expectancy ($X per trade).")

(* one win against two losses and a net loss: expectancy below zero *)
C24_WitnessLoss ==
    /\ Analyzed
    /\ result.num_wins = 1
    /\ result.num_losses = 2
    /\ result.total_pnl_net < 0
    /\ FLt(result.expectancy, FromInt(0))
    /\ HasInsight("Negative expectancy ($X per trade).")

(* closed trades that cancel out: expectancy 0 is reported as negative *)
C24_WitnessEven ==
    /\ Analyzed
    /\ result.total_trades = 3
    /\ result.total_pnl_net = 0
    /\ FEq(result.expectancy, FromInt(0))
    /\ HasInsight("Negative expectancy ($X per trade).")

(* C25: without closed trades, in an empty ledger too, win rate, profit     *)
(* factor and expectancy are 0 and the insights are exactly the low win     *)
(* rate warning, the 'Profit factor <1' alert and the 'Negative expectancy' *)
(* alert, in this order.                                                    *)
C25_InsightsWithoutClosedTrades ==
    (Analyzed /\ ClosedIdx = {}) =>
        /\ result.total_trades = 0
        /\ result.win_rate = FromInt(0)
        /\ result.profit_factor = FromInt(0)
        /\ result.expectancy = FromInt(0)
        /\ result.insights =
              <<Insight("Low win rate (<40%). Consider improving trade selection.", 0),
                Insight("Profit factor <1. Overall unprofitable.", 0),
                Insight("Negative expectancy ($X per trade).", 0)>>

(* rows that pay fees and close nothing *)
C25_Witness ==
    /\ Analyzed
    /\ Len(df) >= 2
    /\ ClosedIdx = {}
    /\ result.total_fees < 0
    /\ Len(result.insights) = 3
    /\ result.insights[1].msg = "Low win rate (<40%). Consider improving trade selection."
    /\ result.insights[3].msg = "Negative expectancy ($X per trade)."

(* the empty ledger *)
C25_WitnessEmptyLedger ==
    /\ Analyzed
    /\ df = <<>>
    /\ Len(result.insights) = 3
    /\ result.insights[2].msg = "Profit factor <1. Overall unprofitable."
====
